---- MODULE Spec2Model ----
(***************************************************************************)
(* Tic-tac-toe example of bevy_replicon_matchbox (examples/tic_tac_toe.rs). *)
(*                                                                         *)
(* One application runs as the authority: either `hotseat` (single         *)
(* machine, no networking) or `server` (host that waits for peers).  The   *)
(* peers are the `client` applications, seen here through the messages     *)
(* they exchange with the host; one `client` application is also modelled  *)
(* with its own phase, turn symbol and board (the c-variables).            *)
(*                                                                         *)
(* Engine semantics the handlers rely on:                                  *)
(*  - commands.set_state(s) only records a pending NextState; the State    *)
(*    resource changes in the StateTransition schedule of the frame;       *)
(*  - commands.client_trigger(CellPick) on the authority is re-emitted     *)
(*    locally at the end of the frame and reaches apply_pick in the next   *)
(*    frame with client_entity = SERVER;                                   *)
(*  - an observer of OnAdd<Symbol> runs for every entity that gains a      *)
(*    Symbol, a cell as well as a player;                                  *)
(*  - commands queued by an observer are applied right after the command   *)
(*    that triggered it, before the rest of the outer queue.               *)
(***************************************************************************)
EXTENDS Integers, Sequences, FiniteSets, TLC

\* ---------------------------------------------------------------- bounds
\* Client entities the host has room for.
MaxPeers == 2
\* Peers (client applications) that may connect to the host.
MaxJoin == 1
\* Cell picks that may be pending at once (clicked, re-emitted or in flight).
MaxPending == 1
\* Symbols on the board up to which a networked game is explored.
MaxNetMoves == 2
\* Cells (counted from cell 0) that the clicks of a networked game target.
MaxNetCells == 4
\* Pending cell picks explored for bursts of clicks.
BurstPending == 2
\* Peers and symbols on the board explored for a peer that joins late.
LateJoin == 2
LateMoves == 5
LateCells == 5

\* ------------------------------------------------------------- constants
GRID_SIZE == 3

Cells == 0 .. (GRID_SIZE * GRID_SIZE - 1)

\* A CellPick carries a usize: one index past the grid stands for every
\* index that no cell has.
PickIndices == 0 .. (GRID_SIZE * GRID_SIZE)

Symbols == {"Cross", "Nought"}

None == "None"

GameState == {"WaitingPlayer", "InGame", "Winner", "Tie", "Disconnected"}

\* NextState::Unchanged
Unchanged == "Unchanged"

SERVER == 0

Peers == 1 .. MaxPeers

\* ProtocolHash of a peer, as the host sees it: its own hash or another.
Hashes == {"ok", "bad"}

WIN_CONDITIONS ==
    << <<0, 1, 2>>, <<3, 4, 5>>, <<6, 7, 8>>,
       <<0, 3, 6>>, <<1, 4, 7>>, <<2, 5, 8>>,
       <<0, 4, 8>>, <<2, 4, 6>> >>

VARIABLES
    cli,          \* Cli resource: [mode, symbol]
    started,      \* Startup schedule (setup_ui, read_cli) has run
    hostUp,       \* MatchboxHost resource present
    state,        \* State<GameState>
    next,         \* NextState<GameState>: Unchanged or the pending state
    turn,         \* TurnSymbol
    board,        \* Cell index -> Symbol component of that cell, or None
    localPlayers, \* Symbols of the LocalPlayer entities, in spawn order
    peers,        \* client entity -> [status, info, symbol]; status is
                  \*   none: not connected      sent: ClientInfo on the way
                  \*   authorized: init_client ran, MakeLocal queued
                  \*   notified: MakeLocal sent   local: make_local ran
                  \*   gone: ConnectedClient entity removed
    clicked,      \* CellPick triggers emitted by pick_cell in this frame
    local,        \* CellPick triggers re-emitted locally, to be applied
    net,          \* CellPick messages of peers in flight: [from, index]
    outbox,       \* server triggers and disconnect requests of this frame
    joined,       \* init_client has run at least once
    caps,         \* exploration bounds of the run:
                  \*   [peers, pending, moves, cells, hashes]
    last,         \* the outcome of apply_pick when it was the last handler
    \* The `client` application behind client entity 1:
    cconn,        \* its connection: none, open, closed
    cstate,       \* its State<GameState>
    cnext,        \* its NextState<GameState>
    cturn,        \* its TurnSymbol
    cboard,       \* its cells: index -> replicated Symbol, or None
    cplayer,      \* replicated Symbol of its own player entity, or None
    clientInfo,   \* ClientInfo.cells it sent: its cell entities, in order
    map,          \* ClientEntityMap of the host: host cell -> client cell
    feed,         \* replicated Symbol insertions on their way to it
    clast         \* the outcome of its pick_cell when it was the last handler

clientVars == << cconn, cstate, cnext, cturn, cboard, cplayer, clientInfo,
                map, feed, clast >>

vars == << cli, started, hostUp, state, next, turn, board, localPlayers,
           peers, clicked, local, net, outbox, joined, caps, last,
           clientVars >>

\* ------------------------------------------------------------- functions

\* Symbol::next that returns Cross for both symbols.
SymbolNextCross(s) == "Cross"

\* Symbol::next that returns the symbol it was given.
SymbolNextSame(s) == s

\* Symbol::next
SymbolNext(s) == IF s = "Cross" THEN "Nought" ELSE "Cross"

\* The triple test without `symbols[0].is_some()`.
TripleWinsNoSome(b, indices) ==
    LET symbols == [k \in 1 .. GRID_SIZE |-> b[indices[k]]]
    IN  \A w \in 1 .. (GRID_SIZE - 1) : symbols[w] = symbols[w + 1]

\* `symbols[0].is_some() && symbols.windows(2).all(|s| s[0] == s[1])`
TripleWins(b, indices) ==
    LET symbols == [k \in 1 .. GRID_SIZE |-> b[indices[k]]]
    IN  /\ symbols[1] # None
        /\ \A w \in 1 .. (GRID_SIZE - 1) : symbols[w] = symbols[w + 1]

\* advance_turn that tests the full board before the triples.
AdvanceTurnTieFirst(b, t, n) ==
    IF \A i \in Cells : b[i] # None
    THEN [turn |-> t, next |-> "Tie"]
    ELSE IF \E c \in 1 .. Len(WIN_CONDITIONS) :
                TripleWins(b, WIN_CONDITIONS[c])
         THEN [turn |-> t, next |-> "Winner"]
         ELSE [turn |-> SymbolNext(t), next |-> n]

\* advance_turn that advances the turn also when the game ends.
AdvanceTurnAlwaysFlip(b, t, n) ==
    IF \E c \in 1 .. Len(WIN_CONDITIONS) : TripleWins(b, WIN_CONDITIONS[c])
    THEN [turn |-> SymbolNext(t), next |-> "Winner"]
    ELSE IF \A i \in Cells : b[i] # None
         THEN [turn |-> SymbolNext(t), next |-> "Tie"]
         ELSE [turn |-> SymbolNext(t), next |-> n]

\* advance_turn with `any` for `all` in the test of a full board.
AdvanceTurnAnyFull(b, t, n) ==
    IF \E c \in 1 .. Len(WIN_CONDITIONS) : TripleWins(b, WIN_CONDITIONS[c])
    THEN [turn |-> t, next |-> "Winner"]
    ELSE IF \E i \in Cells : b[i] # None
         THEN [turn |-> t, next |-> "Tie"]
         ELSE [turn |-> SymbolNext(t), next |-> n]

\* advance_turn: the observer of OnAdd<Symbol>.  b is the board rebuilt from
\* the cells that carry a Symbol, t the TurnSymbol, n the pending NextState.
AdvanceTurn(b, t, n) ==
    IF \E c \in 1 .. Len(WIN_CONDITIONS) : TripleWins(b, WIN_CONDITIONS[c])
    THEN [turn |-> t, next |-> "Winner"]
    ELSE IF \A i \in Cells : b[i] # None
         THEN [turn |-> t, next |-> "Tie"]
         ELSE [turn |-> SymbolNext(t), next |-> n]

\* local_player_turn
LocalPlayerTurn ==
    \E k \in 1 .. Len(localPlayers) : localPlayers[k] = turn

Placed(b) == Cardinality({i \in Cells : b[i] # None})

Pending == Len(clicked) + Len(local) + Len(net)

\* The exploration bound on emitting one more pick.
CanEmit ==
    /\ Pending < caps.pending
    /\ cli.mode = "server" => Placed(board) + Pending < caps.moves

\* The exploration bound on the index of a pick: in a networked game, one of
\* the first cells or the index that no cell has.
Clickable(index) ==
    cli.mode = "server" =>
        index \in (0 .. (caps.cells - 1)) \cup {GRID_SIZE * GRID_SIZE}

\* `last` tells how the last handler ended when it was apply_pick.
NoPick == [op |-> "other", res |-> "none"]

\* `clast` tells how the last handler of the client ended when it was
\* pick_cell: sent or ignored, and whether the clicked cell held a symbol.
NoClick == [res |-> "none", occupied |-> FALSE]

NoPeer == [status |-> "none", info |-> "none", symbol |-> None]

\* ------------------------------------------------------------------ Init
\* The state after construction, explored within the bounds c.
InitWith(c) ==
    /\ caps = c
    /\ cli \in {[mode |-> "hotseat", symbol |-> None]}
               \cup {[mode |-> "server", symbol |-> s] : s \in Symbols}
    /\ started = FALSE
    /\ hostUp = FALSE
    /\ state = "WaitingPlayer"
    /\ next = Unchanged
    /\ turn = "Cross"
    /\ board = [i \in Cells |-> None]
    /\ localPlayers = << >>
    /\ peers = [p \in Peers |-> NoPeer]
    /\ clicked = << >>
    /\ local = << >>
    /\ net = << >>
    /\ outbox = << >>
    /\ joined = FALSE
    /\ last = NoPick
    /\ cconn = "none"
    /\ cstate = "WaitingPlayer"
    /\ cnext = Unchanged
    /\ cturn = "Cross"
    /\ cboard = [i \in Cells |-> None]
    /\ cplayer = None
    /\ clientInfo = << >>
    /\ map = << >>
    /\ feed = << >>
    /\ clast = NoClick

Init ==
    InitWith([peers |-> MaxJoin, pending |-> MaxPending,
              moves |-> MaxNetMoves, cells |-> MaxNetCells, hashes |-> Hashes])

\* --------------------------------------------------------------- actions

\* read_cli that gives both hotseat players Cross.
ReadCliSameSymbols ==
    /\ ~started
    /\ started' = TRUE
    /\ IF cli.mode = "hotseat"
       THEN /\ localPlayers' = << "Cross", "Cross" >>
            /\ turn' = turn
            /\ next' = "InGame"
            /\ hostUp' = FALSE
       ELSE /\ localPlayers' = << cli.symbol >>
            /\ turn' = SymbolNext(turn)
            /\ next' = next
            /\ hostUp' = TRUE
    /\ last' = NoPick
    /\ UNCHANGED << caps, cli, state, board, peers, clicked, local, net, outbox,
                    joined >>

\* Startup: read_cli.  Every spawned player gains a Symbol, so advance_turn
\* observes each spawn.
ReadCli ==
    /\ ~started
    /\ started' = TRUE
    /\ IF cli.mode = "hotseat"
       THEN LET a1 == AdvanceTurn(board, turn, next)
                a2 == AdvanceTurn(board, a1.turn, a1.next)
            IN  /\ localPlayers' = << "Cross", "Nought" >>
                /\ turn' = a2.turn
                /\ next' = "InGame"
                /\ hostUp' = FALSE
       ELSE LET a1 == AdvanceTurn(board, turn, next)
            IN  /\ localPlayers' = << cli.symbol >>
                /\ turn' = a1.turn
                /\ next' = a1.next
                /\ hostUp' = TRUE
    /\ last' = NoPick
    /\ UNCHANGED << caps, cli, state, board, peers, clicked, local, net, outbox,
                    joined >>

\* pick_cell: a click on cell `index` of the authority's own window.
PickCell(index) ==
    /\ started
    /\ CanEmit
    /\ Clickable(index)
    /\ state = "InGame"
    /\ LocalPlayerTurn
    /\ clicked' = Append(clicked, index)
    /\ last' = NoPick
    /\ UNCHANGED << caps, cli, started, hostUp, state, next, turn, board,
                    localPlayers, peers, local, net, outbox, joined >>

\* apply_pick without the test of the peer's symbol.
ApplyPickNoTurnCheck(from, index) ==
    IF ~(\E i \in Cells : i = index /\ board[i] = None)
    THEN /\ last' = [op |-> "apply_pick", res |-> "occupied or invalid"]
         /\ UNCHANGED << board, turn, next >>
    ELSE LET b == [board EXCEPT ![index] = turn]
             a == AdvanceTurn(b, turn, next)
         IN  /\ board' = b
             /\ turn' = a.turn
             /\ next' = a.next
             /\ last' = [op |-> "apply_pick", res |-> "placed"]

\* apply_pick that searches all cells, not only those without a Symbol.
ApplyPickAnyCell(from, index) ==
    IF from # SERVER /\ peers[from].symbol # turn
    THEN /\ last' = [op |-> "apply_pick", res |-> "wrong turn"]
         /\ UNCHANGED << board, turn, next >>
    ELSE IF ~(\E i \in Cells : i = index)
         THEN /\ last' = [op |-> "apply_pick", res |-> "occupied or invalid"]
              /\ UNCHANGED << board, turn, next >>
         ELSE LET b == [board EXCEPT ![index] = turn]
                  a == AdvanceTurn(b, turn, next)
              IN  /\ board' = b
                  /\ turn' = a.turn
                  /\ next' = a.next
                  /\ last' = [op |-> "apply_pick", res |-> "placed"]

\* apply_pick, with the advance_turn it triggers when a Symbol is inserted.
\* from = SERVER for a local pick, otherwise the client entity.
ApplyPick(from, index) ==
    IF from # SERVER /\ peers[from].symbol # turn
    THEN /\ last' = [op |-> "apply_pick", res |-> "wrong turn"]
         /\ UNCHANGED << board, turn, next >>
    ELSE IF ~(\E i \in Cells : i = index /\ board[i] = None)
         THEN /\ last' = [op |-> "apply_pick", res |-> "occupied or invalid"]
              /\ UNCHANGED << board, turn, next >>
         ELSE LET b == [board EXCEPT ![index] = turn]
                  a == AdvanceTurn(b, turn, next)
              IN  /\ board' = b
                  /\ turn' = a.turn
                  /\ next' = a.next
                  /\ last' = [op |-> "apply_pick", res |-> "placed"]

ApplyLocalPick ==
    /\ local # << >>
    /\ ApplyPick(SERVER, Head(local))
    /\ local' = Tail(local)
    /\ UNCHANGED << caps, cli, started, hostUp, state, localPlayers, peers,
                    clicked, net, outbox, joined >>

ApplyNetPick ==
    /\ net # << >>
    /\ ApplyPick(Head(net).from, Head(net).index)
    /\ net' = Tail(net)
    /\ UNCHANGED << caps, cli, started, hostUp, state, localPlayers, peers,
                    clicked, local, outbox, joined >>

\* End of a frame: StateTransition applies the pending state (OnEnter of
\* Disconnected runs stop_networking), the queued server triggers are sent
\* and the picks emitted in this frame are re-emitted for the next one.
\* Every re-emitted pick of the previous frame has been applied by then.
EndFrame ==
    /\ started
    /\ local = << >>
    /\ state' = IF next # Unchanged THEN next ELSE state
    /\ next' = Unchanged
    /\ local' = clicked
    /\ clicked' = << >>
    /\ IF next = "Disconnected" /\ state # "Disconnected"
       THEN /\ hostUp' = FALSE
            /\ peers' = [p \in Peers |->
                           IF peers[p].status = "none" THEN peers[p]
                           ELSE [status |-> "gone", info |-> "none",
                                 symbol |-> None]]
            /\ net' = << >>
       ELSE /\ peers' = [p \in Peers |->
                           IF peers[p].status = "authorized"
                           THEN [peers[p] EXCEPT !.status = "notified"]
                           ELSE peers[p]]
            /\ UNCHANGED << hostUp, net >>
    /\ outbox' = << >>
    /\ last' = NoPick
    /\ UNCHANGED << caps, cli, started, turn, board, localPlayers, joined >>

\* client_start on a peer that has just connected: the backend of the host
\* spawned its ConnectedClient entity and its ClientInfo is on the way.
\* hash is "ok" when the peer was built with the host's protocol.  Peers
\* take the client entities in order.
ClientStart(p, hash) ==
    /\ started
    /\ hostUp
    /\ p <= caps.peers
    /\ hash \in caps.hashes
    /\ peers[p].status = "none"
    /\ \A q \in Peers : q < p => peers[q].status # "none"
    /\ peers' = [peers EXCEPT ![p].status = "sent", ![p].info = hash]
    /\ last' = NoPick
    /\ UNCHANGED << caps, cli, started, hostUp, state, next, turn, board,
                    localPlayers, clicked, local, net, outbox, joined >>

\* init_client that requests the disconnection before it notifies.
InitClientDisconnectFirst(p) ==
    /\ hostUp
    /\ peers[p].status = "sent"
    /\ LET server_symbol == localPlayers[1]
           mismatch == IF peers[p].info # "ok"
                       THEN << [msg |-> "DisconnectRequest", to |-> p],
                               [msg |-> "ProtocolMismatch", to |-> p] >>
                       ELSE << >>
           a == AdvanceTurn(board, turn, next)
       IN  /\ peers' = [peers EXCEPT ![p].status = "authorized",
                                     ![p].symbol = SymbolNext(server_symbol)]
           /\ turn' = a.turn
           /\ outbox' = outbox \o mismatch
                               \o << [msg |-> "MakeLocal", to |-> p] >>
           /\ next' = "InGame"
    /\ joined' = TRUE
    /\ last' = NoPick
    /\ UNCHANGED << caps, cli, started, hostUp, state, board, localPlayers,
                    clicked, local, net >>

\* init_client: the host receives the ClientInfo of p.
InitClient(p) ==
    /\ hostUp
    /\ peers[p].status = "sent"
    /\ LET server_symbol == localPlayers[1]
           mismatch == IF peers[p].info # "ok"
                       THEN << [msg |-> "ProtocolMismatch", to |-> p],
                               [msg |-> "DisconnectRequest", to |-> p] >>
                       ELSE << >>
           a == AdvanceTurn(board, turn, next)
       IN  /\ peers' = [peers EXCEPT ![p].status = "authorized",
                                     ![p].symbol = SymbolNext(server_symbol)]
           /\ turn' = a.turn
           /\ outbox' = outbox \o mismatch
                               \o << [msg |-> "MakeLocal", to |-> p] >>
           /\ next' = "InGame"
    /\ joined' = TRUE
    /\ last' = NoPick
    /\ UNCHANGED << caps, cli, started, hostUp, state, board, localPlayers,
                    clicked, local, net >>

\* make_local on the peer: its player entity becomes a LocalPlayer, so its
\* pick_cell may send picks from now on.
MakeLocal(p) ==
    /\ hostUp
    /\ peers[p].status = "notified"
    /\ peers' = [peers EXCEPT ![p].status = "local"]
    /\ last' = NoPick
    /\ UNCHANGED << caps, cli, started, hostUp, state, next, turn, board,
                    localPlayers, clicked, local, net, outbox, joined >>

\* A CellPick of peer p is sent to the host.  The peer decides on what it
\* knows of the game, which lags behind the host, and the host cannot rely
\* on what a client checked before sending: any index may arrive.
PeerCellPick(p, index) ==
    /\ hostUp
    /\ peers[p].status = "local"
    /\ CanEmit
    /\ Clickable(index)
    /\ net' = Append(net, [from |-> p, index |-> index])
    /\ last' = NoPick
    /\ UNCHANGED << caps, cli, started, hostUp, state, next, turn, board,
                    localPlayers, peers, clicked, local, outbox, joined >>

\* disconnect_by_client that never requests a phase.
DisconnectByClientNever(p) ==
    /\ hostUp
    /\ peers[p].status \in {"sent", "authorized", "notified", "local"}
    /\ peers' = [peers EXCEPT ![p] = [status |-> "gone", info |-> "none",
                                       symbol |-> None]]
    /\ net' = SelectSeq(net, LAMBDA m : m.from # p)
    /\ next' = next
    /\ last' = NoPick
    /\ UNCHANGED << caps, cli, started, hostUp, state, turn, board,
                    localPlayers, clicked, local, outbox, joined >>

\* disconnect_by_client without the test of the phase.
DisconnectByClientAlways(p) ==
    /\ hostUp
    /\ peers[p].status \in {"sent", "authorized", "notified", "local"}
    /\ peers' = [peers EXCEPT ![p] = [status |-> "gone", info |-> "none",
                                       symbol |-> None]]
    /\ net' = SelectSeq(net, LAMBDA m : m.from # p)
    /\ next' = "Disconnected"
    /\ last' = NoPick
    /\ UNCHANGED << caps, cli, started, hostUp, state, turn, board, localPlayers,
                    clicked, local, outbox, joined >>

\* disconnect_by_client: the connection of p is closed (by the peer, or as
\* the host requested) and its ConnectedClient entity is removed.
DisconnectByClient(p) ==
    /\ hostUp
    /\ peers[p].status \in {"sent", "authorized", "notified", "local"}
    /\ peers' = [peers EXCEPT ![p] = [status |-> "gone", info |-> "none",
                                       symbol |-> None]]
    /\ net' = SelectSeq(net, LAMBDA m : m.from # p)
    /\ next' = IF state = "InGame" THEN "Disconnected" ELSE next
    /\ last' = NoPick
    /\ UNCHANGED << caps, cli, started, hostUp, state, turn, board, localPlayers,
                    clicked, local, outbox, joined >>

\* The client application takes no step.
ClientIdle == UNCHANGED clientVars

Next ==
    \/ ReadCli /\ ClientIdle
    \/ \E i \in Cells : PickCell(i) /\ ClientIdle
    \/ ApplyLocalPick /\ ClientIdle
    \/ ApplyNetPick /\ ClientIdle
    \/ EndFrame /\ ClientIdle
    \/ \E p \in Peers, h \in Hashes : ClientStart(p, h) /\ ClientIdle
    \/ \E p \in Peers : InitClient(p) /\ ClientIdle
    \/ \E p \in Peers : MakeLocal(p) /\ ClientIdle
    \/ \E p \in Peers, i \in PickIndices : PeerCellPick(p, i) /\ ClientIdle
    \/ \E p \in Peers : DisconnectByClient(p) /\ ClientIdle

Spec == Init /\ [][Next]_vars

\* The hotseat game alone: no host, no peer.
InitHotseat == Init /\ cli.mode = "hotseat"

NextHotseat ==
    \/ ReadCli /\ ClientIdle
    \/ \E i \in Cells : PickCell(i) /\ ClientIdle
    \/ ApplyLocalPick /\ ClientIdle
    \/ EndFrame /\ ClientIdle

SpecHotseat == InitHotseat /\ [][NextHotseat]_vars

\* The networked game alone: a host and its peers.
InitServer == Init /\ cli.mode = "server"

SpecServer == InitServer /\ [][Next]_vars

\* The networked game with bursts of clicks: two picks may be pending.
InitBurst ==
    /\ InitWith([peers |-> MaxJoin, pending |-> BurstPending,
                 moves |-> MaxNetMoves, cells |-> MaxNetCells, hashes |-> Hashes])
    /\ cli.mode = "server"

SpecBurst == InitBurst /\ [][Next]_vars

\* The networked game played to its end, with a peer that joins late.  The
\* host plays Cross and every peer was built with the host's protocol.
InitLate ==
    /\ InitWith([peers |-> LateJoin, pending |-> MaxPending,
                 moves |-> LateMoves, cells |-> LateCells, hashes |-> {"ok"}])
    /\ cli = [mode |-> "server", symbol |-> "Cross"]

SpecLate == InitLate /\ [][Next]_vars

\* ------------------------------------------------- the client application

hostVars == << cli, started, hostUp, state, next, turn, board, localPlayers,
               peers, clicked, local, net, outbox, joined, caps, last >>

\* Orders in which a Query may visit the nine cells.
Orders ==
    { << 0, 1, 2, 3, 4, 5, 6, 7, 8 >>,
      << 8, 7, 6, 5, 4, 3, 2, 1, 0 >>,
      << 4, 0, 8, 2, 6, 1, 3, 5, 7 >> }

\* cells.iter().collect() of Query<(Entity, &Cell)> on one side ("h" for
\* the host, "c" for the client), visiting the cells in the order ord.
QueryCells(side, ord) ==
    [k \in 1 .. Len(ord) |-> [entity |-> << side, ord[k] >>, index |-> ord[k]]]

\* sort_by_key that leaves the cells in the order of the query.
SortByIndexNoSort(cells) == cells

\* cells.sort_by_key(|(_, cell)| cell.index): a stable sort, so a cell comes
\* after the cells of a lower index and the earlier cells of its own index.
SortByIndex(cells) ==
    [k \in 1 .. Len(cells) |->
        cells[CHOOSE j \in 1 .. Len(cells) :
                Cardinality({i \in 1 .. Len(cells) :
                               \/ cells[i].index < cells[j].index
                               \/ /\ cells[i].index = cells[j].index
                                  /\ i < j}) = k - 1]]

\* The ClientEntityMap of init_client: the host cells zipped with the
\* received client entities.
EntityMap(cells, received) ==
    LET n == IF Len(cells) < Len(received) THEN Len(cells) ELSE Len(received)
    IN  [e \in {cells[k].entity : k \in 1 .. n} |->
            received[CHOOSE k \in 1 .. n : cells[k].entity = e]]

\* The connection of the client is up on the host and replication runs.
Replicating(ps) == ps[1].status \in {"authorized", "notified", "local"}

\* The Symbol components of the host's cells, as replication sends them.
CellItems(b, new) ==
    SelectSeq([k \in 1 .. GRID_SIZE * GRID_SIZE |->
                  [kind |-> "cell", entity |-> << "h", k - 1 >>,
                   symbol |-> b[k - 1]]],
              LAMBDA it : it.entity[2] \in new)

\* local_player_turn on the client.
ClientLocalPlayerTurn ==
    /\ peers[1].status = "local"
    /\ cplayer = cturn

\* What a step of the host means to the client: a Symbol inserted on a host
\* cell is replicated while the connection is up.
HostSide ==
    /\ feed' = IF Replicating(peers')
               THEN feed \o CellItems(board', {i \in Cells : board[i] = None
                                                  /\ board'[i] # None})
               ELSE << >>
    /\ clast' = NoClick
    /\ UNCHANGED << cconn, cstate, cnext, cturn, cboard, cplayer, clientInfo,
                    map >>

\* client_start, on the client and as the host's backend sees it.
ClientAppStart(hash, ord) ==
    /\ ClientStart(1, hash)
    /\ LET cells == SortByIndex(QueryCells("c", ord))
       IN  clientInfo' = [k \in 1 .. Len(cells) |-> cells[k].entity]
    /\ cconn' = "open"
    /\ cnext' = "InGame"
    /\ clast' = NoClick
    /\ UNCHANGED << cstate, cturn, cboard, cplayer, map, feed >>

\* init_client for the client: the entity map is built and replication to
\* the client starts with every Symbol the host holds.
HostInitClient(ord) ==
    /\ InitClient(1)
    /\ map' = EntityMap(SortByIndex(QueryCells("h", ord)), clientInfo)
    /\ feed' = << [kind |-> "player", entity |-> << "h", SERVER >>,
                   symbol |-> localPlayers[1]],
                  [kind |-> "own", entity |-> << "h", 1 >>,
                   symbol |-> peers'[1].symbol] >>
               \o CellItems(board, {i \in Cells : board[i] # None})
    /\ clast' = NoClick
    /\ UNCHANGED << cconn, cstate, cnext, cturn, cboard, cplayer,
                    clientInfo >>

\* The client receives one replicated Symbol: it is inserted on the mapped
\* entity and advance_turn observes it.
ClientReplicate ==
    /\ cconn = "open"
    /\ feed # << >>
    /\ LET it == Head(feed)
           b == IF it.kind = "cell"
                THEN [cboard EXCEPT ![map[it.entity][2]] = it.symbol]
                ELSE cboard
           a == AdvanceTurn(b, cturn, cnext)
       IN  /\ cboard' = b
           /\ cturn' = a.turn
           /\ cnext' = a.next
           /\ cplayer' = IF it.kind = "own" THEN it.symbol ELSE cplayer
    /\ feed' = Tail(feed)
    /\ clast' = NoClick
    /\ UNCHANGED << hostVars, cconn, cstate, clientInfo, map >>

\* make_local on the client, once its player entity has been replicated.
ClientMakeLocal ==
    /\ MakeLocal(1)
    /\ cconn = "open"
    /\ cplayer # None
    /\ clast' = NoClick
    /\ UNCHANGED << cconn, cstate, cnext, cturn, cboard, cplayer, clientInfo,
                    map, feed >>

\* pick_cell that sends no pick on a cell that holds a symbol.
ClientPickCellChecked(index) ==
    /\ cconn # "none"
    /\ CanEmit
    /\ Clickable(index)
    /\ IF cstate = "InGame" /\ ClientLocalPlayerTurn /\ cboard[index] = None
       THEN /\ net' = IF Replicating(peers) /\ hostUp
                      THEN Append(net, [from |-> 1, index |-> index])
                      ELSE net
            /\ clast' = [res |-> "sent", occupied |-> cboard[index] # None]
       ELSE /\ net' = net
            /\ clast' = [res |-> "ignored", occupied |-> cboard[index] # None]
    /\ UNCHANGED << caps, cli, started, hostUp, state, next, turn, board,
                    localPlayers, peers, clicked, local, outbox, joined, last,
                    cconn, cstate, cnext, cturn, cboard, cplayer, clientInfo,
                    map, feed >>

\* pick_cell on the client: a click on its cell `index`.
ClientPickCell(index) ==
    /\ cconn # "none"
    /\ CanEmit
    /\ Clickable(index)
    /\ IF cstate = "InGame" /\ ClientLocalPlayerTurn
       THEN /\ net' = IF Replicating(peers) /\ hostUp
                      THEN Append(net, [from |-> 1, index |-> index])
                      ELSE net
            /\ clast' = [res |-> "sent", occupied |-> cboard[index] # None]
       ELSE /\ net' = net
            /\ clast' = [res |-> "ignored", occupied |-> cboard[index] # None]
    /\ UNCHANGED << caps, cli, started, hostUp, state, next, turn, board,
                    localPlayers, peers, clicked, local, outbox, joined, last,
                    cconn, cstate, cnext, cturn, cboard, cplayer, clientInfo,
                    map, feed >>

\* StateTransition on the client; OnEnter(Disconnected) runs
\* stop_networking.
ClientEndFrame ==
    /\ cnext # Unchanged
    /\ cstate' = cnext
    /\ cnext' = Unchanged
    /\ cconn' = IF cnext = "Disconnected" THEN "closed" ELSE cconn
    /\ clast' = NoClick
    /\ UNCHANGED << hostVars, cturn, cboard, cplayer, clientInfo, map, feed >>

\* The client finds its connection closed: client_just_disconnected holds
\* in the Update of that frame, after StateTransition, and
\* disconnect_by_server runs if the phase is InGame.
DisconnectByServer ==
    /\ cconn = "open"
    /\ peers[1].status = "gone"
    /\ cnext = Unchanged
    /\ cconn' = "closed"
    /\ cnext' = IF cstate = "InGame" THEN "Disconnected" ELSE cnext
    /\ feed' = << >>
    /\ clast' = NoClick
    /\ UNCHANGED << hostVars, cstate, cturn, cboard, cplayer, clientInfo,
                    map >>

NextClient ==
    \/ ReadCli /\ HostSide
    \/ \E i \in Cells : PickCell(i) /\ HostSide
    \/ ApplyLocalPick /\ HostSide
    \/ ApplyNetPick /\ HostSide
    \/ EndFrame /\ HostSide
    \/ DisconnectByClient(1) /\ HostSide
    \/ \E h \in Hashes, ord \in Orders : ClientAppStart(h, ord)
    \/ \E ord \in Orders : HostInitClient(ord)
    \/ ClientMakeLocal
    \/ ClientReplicate
    \/ \E i \in Cells : ClientPickCell(i)
    \/ ClientEndFrame
    \/ DisconnectByServer

\* A host and one client application.
SpecClient == InitServer /\ [][NextClient]_vars

\* ---------------------------------------------------------------- claims

\* The 8 lines of the grid, as sets of cell indices.
Lines ==
    { {0, 1, 2}, {3, 4, 5}, {6, 7, 8},
      {0, 3, 6}, {1, 4, 7}, {2, 5, 8},
      {0, 4, 8}, {2, 4, 6} }

HasLine(b) == \E l \in Lines, s \in Symbols : \A i \in l : b[i] = s

Full(b) == \A i \in Cells : b[i] \in Symbols

\* C1: when apply_pick handles the pick of a peer whose symbol is not the
\* turn symbol, no cell gains a symbol and the turn symbol, the game phase
\* and the pending phase stay as they were, whatever the index.
C1_WrongTurnRejected ==
    [][ ( /\ net # << >>
          /\ net' = Tail(net)
          /\ last'.op = "apply_pick"
          /\ peers[Head(net).from].symbol # turn )
        => ( /\ board' = board
             /\ turn' = turn
             /\ state' = state
             /\ next' = next ) ]_vars

C1_Witness ==
    /\ last = [op |-> "apply_pick", res |-> "wrong turn"]
    /\ \E i \in Cells : board[i] # None

\* C2: when apply_pick handles a pick, local or of a peer, whose index is
\* occupied or is not in 0..8, every cell keeps what it had and the turn
\* symbol and the game phase are unchanged.
C2_OccupiedOrInvalidRejected ==
    [][ \A q \in {"local", "net"} :
          LET queue == IF q = "local" THEN local ELSE net
              queueAfter == IF q = "local" THEN local' ELSE net'
              index == IF q = "local" THEN Head(local) ELSE Head(net).index
          IN  ( /\ queue # << >>
                /\ queueAfter = Tail(queue)
                /\ last'.op = "apply_pick"
                /\ (index \notin Cells \/ board[index] # None) )
              => ( /\ board' = board
                   /\ turn' = turn
                   /\ state' = state
                   /\ next' = next ) ]_vars

C2_Witness ==
    /\ last = [op |-> "apply_pick", res |-> "occupied or invalid"]
    /\ \E i \in Cells : board[i] # None

\* C3: when a symbol is placed on a cell, advance_turn requests the phase
\* Winner if and only if one of the 8 lines holds three equal symbols.
C3_WinnerIffLine ==
    [][ board' # board => (next' = "Winner" <=> HasLine(board')) ]_vars

C3_Witness ==
    /\ last = [op |-> "apply_pick", res |-> "placed"]
    /\ next = "Winner"
    /\ \A i \in {2, 4, 6} : board[i] = "Nought"

\* C4: when a symbol is placed and the board is then full without a line of
\* three equal symbols, advance_turn requests the phase Tie (not Winner);
\* the phase Tie is never requested or held on a board that is not full.
C4_TieIffFullNoLine ==
    /\ [][ board' # board =>
             /\ (Full(board') /\ ~HasLine(board')) => next' = "Tie"
             /\ next' = "Tie" => (Full(board') /\ ~HasLine(board')) ]_vars
    /\ []( (state = "Tie" \/ next = "Tie") => Full(board) )

C4_Witness ==
    /\ last = [op |-> "apply_pick", res |-> "placed"]
    /\ next = "Tie"
    /\ Full(board)

\* C5: every accepted move that leaves the board neither full nor with a
\* line happens in phase InGame, leaves the phase InGame and changes the
\* turn symbol to the successor of the symbol that was placed.
C5_Claim ==
    [][ (board' # board /\ ~Full(board') /\ ~HasLine(board'))
        => ( /\ state = "InGame"
             /\ state' = "InGame"
             /\ \E i \in Cells : /\ board[i] = None
                                 /\ board'[i] = turn
                                 /\ turn' # board'[i]
                                 /\ turn' \in Symbols ) ]_vars

\* C6: a symbol is placed on a cell of the authoritative board only while
\* the authoritative game phase is InGame.
C6_Claim ==
    [][ board' # board => state = "InGame" ]_vars

\* C7: when init_client handles a ClientInfo with a mismatching protocol
\* hash, the host first sends ProtocolMismatch to that client and next
\* requests the disconnection of that client, and addresses nothing to any
\* other client.
C7_MismatchThenDisconnect ==
    [][ \A p \in Peers :
          ( /\ peers[p].status = "sent"
            /\ peers'[p].status = "authorized"
            /\ peers[p].info # "ok" )
          => LET n == Len(outbox)
             IN  /\ Len(outbox') >= n + 2
                 /\ SubSeq(outbox', 1, n) = outbox
                 /\ outbox'[n + 1] = [msg |-> "ProtocolMismatch", to |-> p]
                 /\ outbox'[n + 2] = [msg |-> "DisconnectRequest", to |-> p]
                 /\ \A k \in (n + 1) .. Len(outbox') : outbox'[k].to = p
                 /\ \A k \in (n + 3) .. Len(outbox') :
                        outbox'[k].msg \notin {"ProtocolMismatch",
                                               "DisconnectRequest"} ]_vars

C7_Witness ==
    /\ \E p \in Peers : peers[p].status = "authorized" /\ peers[p].info = "bad"
    /\ \E k \in 1 .. Len(outbox) : outbox[k].msg = "DisconnectRequest"

\* C8: in hotseat mode read_cli creates exactly two local players, one with
\* Cross and one with Nought, requests the phase InGame and creates no
\* networking resource; so in every InGame state a local player holds the
\* turn symbol, and a local pick whose cell is empty when apply_pick handles
\* it places the turn symbol there.
C8_Hotseat ==
    /\ []( (cli.mode = "hotseat" /\ started) =>
             /\ Len(localPlayers) = 2
             /\ \A s \in Symbols :
                  Cardinality({k \in 1 .. 2 : localPlayers[k] = s}) = 1
             /\ ~hostUp
             /\ \A p \in Peers : peers[p].status = "none"
             /\ state \in {"WaitingPlayer", "InGame", "Winner", "Tie"}
             /\ state = "InGame" =>
                  \E k \in 1 .. Len(localPlayers) : localPlayers[k] = turn )
    /\ [][ (cli.mode = "hotseat" /\ ~started /\ started')
           => next' = "InGame" ]_vars
    /\ [][ ( /\ cli.mode = "hotseat"
             /\ local # << >>
             /\ local' = Tail(local)
             /\ board[Head(local)] = None )
           => board' = [board EXCEPT ![Head(local)] = turn] ]_vars

C8_Witness ==
    /\ cli.mode = "hotseat"
    /\ state = "InGame"
    /\ last = [op |-> "apply_pick", res |-> "placed"]
    /\ \E i, j \in Cells : board[i] = "Cross" /\ board[j] = "Nought"

\* C9: in server mode the host has one local player, with the symbol of the
\* command line; until init_client has handled a ClientInfo the phase is
\* WaitingPlayer, no other phase is pending and the board is empty;
\* init_client requests the phase InGame, and the phase WaitingPlayer is
\* left only for InGame.
C9_ServerWaits ==
    /\ []( (cli.mode = "server" /\ started) =>
             /\ localPlayers = << cli.symbol >>
             /\ ~joined => /\ state = "WaitingPlayer"
                           /\ next = Unchanged
                           /\ \A i \in Cells : board[i] = None )
    /\ [][ (\E p \in Peers : /\ peers[p].status = "sent"
                             /\ peers'[p].status = "authorized")
           => (cli.mode = "server" /\ joined' /\ next' = "InGame") ]_vars
    /\ [][ (cli.mode = "server" /\ state = "WaitingPlayer" /\ state' # state)
           => (state' = "InGame" /\ joined) ]_vars

C9_Witness ==
    /\ cli.mode = "server"
    /\ joined
    /\ state = "InGame"
    /\ \E p \in Peers : peers[p].status = "notified"

\* C10: init_client gives the joining peer the successor of the host's
\* symbol; so every peer that holds a symbol holds the one the host does
\* not, and host and peer hold Cross and Nought between them.
C10_PeerGetsOtherSymbol ==
    /\ [][ \A p \in Peers :
             ( /\ peers[p].status = "sent"
               /\ peers'[p].status = "authorized" )
             => peers'[p].symbol =
                  (IF cli.symbol = "Cross" THEN "Nought" ELSE "Cross") ]_vars
    /\ []( \A p \in Peers :
             peers[p].symbol # None =>
               /\ cli.mode = "server"
               /\ peers[p].symbol # localPlayers[1]
               /\ {localPlayers[1], peers[p].symbol} = Symbols )

C10_Witness ==
    \E p \in Peers : /\ peers[p].status = "local"
                     /\ peers[p].symbol \in Symbols

C12_MappedAndEqual ==
    /\ clientInfo # << >> =>
         clientInfo = [k \in 1 .. GRID_SIZE * GRID_SIZE |-> << "c", k - 1 >>]
    /\ map # << >> =>
         /\ DOMAIN map = {<< "h", i >> : i \in Cells}
         /\ \A i \in Cells : map[<< "h", i >>] = << "c", i >>
    /\ (cconn = "open" /\ Replicating(peers) /\ feed = << >>) =>
         cboard = board

C12_Witness ==
    /\ cconn = "open"
    /\ Replicating(peers)
    /\ map # << >>
    /\ cplayer # None
    /\ feed = << >>
    /\ Placed(board) = 2
    /\ cboard = board

\* C16: a click of the client sends a CellPick exactly when the phase of the
\* client is InGame and its local player holds its turn symbol, whether or
\* not the clicked cell holds a symbol; a sent pick is one more message to
\* the host; a click on the host emits a pick only in InGame at the turn of
\* a local player.
C16_PickIffGuard ==
    /\ [][ clast' # NoClick =>
             ( clast'.res = "sent"
               <=> (cstate = "InGame" /\ ClientLocalPlayerTurn) ) ]_vars
    /\ [][ (clast'.res = "sent" /\ Replicating(peers) /\ hostUp) =>
             /\ Len(net') = Len(net) + 1
             /\ net'[Len(net')].from = 1 ]_vars
    /\ [][ Len(clicked') > Len(clicked) =>
             (state = "InGame" /\ LocalPlayerTurn) ]_vars

C16_Witness ==
    /\ clast = [res |-> "sent", occupied |-> TRUE]
    /\ Len(net) = 1
    /\ board[net[1].index] # None

\* C13: Symbol::next maps Cross to Nought and Nought to Cross: applied to
\* the turn symbol or to a player's symbol it gives a symbol that differs
\* from it, and applied twice it gives the symbol back.
C13_NextIsInvolution ==
    \A s \in {turn} \cup {localPlayers[k] : k \in 1 .. Len(localPlayers)} :
        /\ SymbolNext(s) \in Symbols
        /\ SymbolNext(s) # s
        /\ SymbolNext(SymbolNext(s)) = s
        /\ s = "Cross" => SymbolNext(s) = "Nought"
        /\ s = "Nought" => SymbolNext(s) = "Cross"

C13_Witness ==
    /\ turn = "Nought"
    /\ Placed(board) = 3
    /\ last = [op |-> "apply_pick", res |-> "placed"]

\* C14: when the move that fills the ninth cell also completes a line of
\* three equal symbols, advance_turn requests Winner, not Tie.
C14_WinBeforeTie ==
    [][ (board' # board /\ Full(board') /\ HasLine(board'))
        => next' = "Winner" ]_vars

C14_Witness ==
    /\ Full(board)
    /\ HasLine(board)
    /\ state = "InGame"
    /\ next = "Winner"
    /\ last = [op |-> "apply_pick", res |-> "placed"]

\* C15: the board has the nine cells 0..8 at all times, and a cell that
\* holds a symbol keeps that symbol over every step (pick, join, disconnect,
\* end of frame).
C15_BoardOnlyGrows ==
    /\ [](DOMAIN board = Cells /\ Cardinality(DOMAIN board) = 9)
    /\ [][ \A i \in Cells : board[i] # None => board'[i] = board[i] ]_vars

C15_Witness ==
    /\ \E i \in Cells : board[i] # None
    /\ \E p \in Peers : peers[p].status = "gone"
    /\ state = "Disconnected"

\* C17: a peer whose ClientInfo carried a mismatching protocol hash holds no
\* symbol, is not authorized and is sent no MakeLocal, and the handling of
\* its ClientInfo leaves the pending phase of the host as it was.
C17_Claim ==
    /\ []( \A p \in Peers :
             peers[p].info = "bad" =>
               /\ peers[p].symbol = None
               /\ peers[p].status \notin {"authorized", "notified", "local"}
               /\ \A k \in 1 .. Len(outbox) :
                    outbox[k] # [msg |-> "MakeLocal", to |-> p] )
    /\ [][ \A p \in Peers :
             ( /\ peers[p].status = "sent"
               /\ peers[p].info = "bad"
               /\ peers'[p].status \notin {"sent", "gone"} )
             => next' = next ]_vars

\* C19: while the phase Winner is held or pending, the turn symbol fills a
\* complete line of the board; the move that requests Tie leaves the turn
\* symbol equal to the symbol it placed, and while Tie is held or pending
\* neither the turn symbol nor the board changes.
C19_TurnKeptAtEnd ==
    /\ []( (state = "Winner" \/ next = "Winner") =>
             \E l \in Lines : \A i \in l : board[i] = turn )
    /\ [][ (board' # board /\ next' = "Tie") =>
             \E i \in Cells : board[i] = None /\ board'[i] = turn' ]_vars
    /\ [][ (state = "Tie" \/ next = "Tie") =>
             (turn' = turn /\ board' = board) ]_vars

C19_Witness ==
    /\ state = "Winner"
    /\ turn = "Cross"
    /\ \E l \in Lines : \A i \in l : board[i] = turn

\* C18: in a networked game a pick that came from the host (client entity
\* SERVER) places the host's symbol and a pick that came from a peer places
\* that peer's symbol, however picks are emitted and applied.
C18_Claim ==
    [][ \A i \in Cells :
          (board[i] = None /\ board'[i] # None) =>
            /\ local' # local => board'[i] = localPlayers[1]
            /\ net' # net => board'[i] = peers[Head(net).from].symbol ]_vars

\* C20: once the phase of the host is Winner or Tie, no step changes it.
C20_Claim ==
    [][ (state \in {"Winner", "Tie"}) => (state' = state) ]_vars

====
